---- MODULE Spec2Model ----
(***************************************************************************)
(* Model of the two-party bargaining simulator: the Game engine of         *)
(* src/core.py and the proposer / responder strategies of                  *)
(* src/strategies/.                                                        *)
(*                                                                         *)
(* Numbers.  Python floats are modelled as exact fixed-point numbers.      *)
(* Money (offers, costs, utilities) is counted in ticks, Scale ticks to    *)
(* 1.0; Scale is 100 * 2^MaxRounds so that epsilon = 0.01 and every        *)
(* midpoint a BinarySearchProposer can compute within MaxRounds rounds     *)
(* are whole numbers of ticks.  Probabilities are counted in units of      *)
(* 1/PScale.                                                               *)
(***************************************************************************)
EXTENDS Integers, Sequences, FiniteSets, TLC

\* ------------------------------------------------------------------ bounds
MaxRounds == 5

PScale == 2

Scale == 100 * (2 ^ MaxRounds)

\* n whole units of money, in ticks
M(n) == n * Scale

Max(a, b) == IF a >= b THEN a ELSE b

Min(a, b) == IF a <= b THEN a ELSE b

\* None is the empty sequence, a value v is <<v>>
None == << >>

Some(v) == << v >>

Players == {"player1", "player2"}

\* random.random(): a draw in [0, 1), in units of 1/PScale
RandomDraws == 0 .. (PScale - 1)

\* random.uniform(a, b) = a + (b - a) * random.random()
Uniform(range, r) == range[1] + ((range[2] - range[1]) * r) \div PScale

VARIABLES
    game,               \* the configuration fields of Game, fixed at construction
    p_current,          \* Game.p_current
    proposer,           \* Game.proposer
    receiver,           \* Game.receiver
    history,            \* Game.history
    utility,            \* Player.utility of each player
    proposer_strategy,  \* Player.proposer_strategy of each player (its fields)
    responder_strategy, \* Player.responder_strategy of each player (its fields)
    pc,                 \* "init" | "running" | "done" | "raised": position of the caller in run()
    n_rounds,           \* argument of run()
    rounds_done,        \* iterations of the loop of run() completed
    calls               \* the calls the last play_round made, in the order it made them

vars == << game, p_current, proposer, receiver, history, utility,
           proposer_strategy, responder_strategy, pc, n_rounds, rounds_done, calls >>

Other(player) == IF player = "player1" THEN "player2" ELSE "player1"

\* ------------------------------------------------------------ Game helpers
\* mutant: the flat costs of the two players are exchanged
get_bad_utility_swapped(player, is_proposer) ==
    IF player = "player1"
    THEN game.player_2_bad + (IF is_proposer THEN game.proposer_bad ELSE game.receiver_bad)
    ELSE game.player_1_bad + (IF is_proposer THEN game.proposer_bad ELSE game.receiver_bad)

get_bad_utility(player, is_proposer) ==
    IF player = "player1"
    THEN game.player_1_bad + (IF is_proposer THEN game.proposer_bad ELSE game.receiver_bad)
    ELSE game.player_2_bad + (IF is_proposer THEN game.proposer_bad ELSE game.receiver_bad)

\* max(game.min_offer, min(x, game.max_offer))
Clamp(x) == Max(game.min_offer, Min(x, game.max_offer))

\* -------------------------------------------------------- proposer strategies
ConcedingProposer(start_offer, decrement) ==
    [kind |-> "Conceding", current_offer |-> start_offer, decrement |-> decrement]

Conceding_propose(s) == Clamp(s.current_offer)

\* mutant: a rejection raises the offer
Conceding_receive_feedback_raise(s, accepted, offer) ==
    IF ~accepted
    THEN [s EXCEPT !.current_offer = s.current_offer + s.decrement]
    ELSE s

Conceding_receive_feedback(s, accepted, offer) ==
    IF ~accepted
    THEN [s EXCEPT !.current_offer = s.current_offer - s.decrement]
    ELSE s

LearningProposer(start_offer, step_size) ==
    [kind |-> "Learning", current_offer |-> start_offer, step_size |-> step_size]

Learning_propose(s) == Clamp(s.current_offer)

Learning_receive_feedback(s, accepted, offer) ==
    IF accepted
    THEN [s EXCEPT !.current_offer = s.current_offer + s.step_size]
    ELSE [s EXCEPT !.current_offer = s.current_offer - s.step_size]

TitForTatProposer ==
    [kind |-> "TitForTat", last_opponent_offer |-> None]

TitForTat_propose(s) ==
    IF s.last_opponent_offer = None THEN 0 ELSE s.last_opponent_offer[1]

\* mutant: zero offers are stored too
observe_offer_from_opponent_any(s, offer) ==
    [s EXCEPT !.last_opponent_offer = Some(offer)]

observe_offer_from_opponent(s, offer) ==
    IF offer # 0 THEN [s EXCEPT !.last_opponent_offer = Some(offer)] ELSE s

BinarySearchProposer(min_offer, max_offer) ==
    [kind |-> "BinarySearch", low |-> min_offer, high |-> max_offer,
     last_offer |-> (min_offer + max_offer) \div 2]

\* propose() stores the midpoint in last_offer and returns it
BinarySearch_propose(s) ==
    [s EXCEPT !.last_offer = (s.low + s.high) \div 2]

\* mutant: integer-style bisection, the lower end moves one unit past the offer
BinarySearch_receive_feedback_past(s, accepted, offer) ==
    IF accepted
    THEN [s EXCEPT !.low = Max(s.low, offer + Scale)]
    ELSE [s EXCEPT !.high = Min(s.high, offer)]

BinarySearch_receive_feedback(s, accepted, offer) ==
    IF accepted
    THEN [s EXCEPT !.low = Max(s.low, offer)]
    ELSE [s EXCEPT !.high = Min(s.high, offer)]

\* RandomProposer(distribution, mean=..., stddev=...); samples is the bounded
\* set the draws of random.uniform / random.gauss are taken from
RandomProposer(distribution, mean, stddev, samples) ==
    [kind |-> "Random", distribution |-> distribution, mean |-> mean,
     stddev |-> stddev, samples |-> samples]

\* mutant: only the mean of a normal distribution is checked
Random_raises_mean_only(s) ==
    IF s.distribution = "uniform" THEN FALSE
    ELSE IF s.distribution = "normal" THEN s.mean = None
    ELSE TRUE

\* propose raises: the assert on mean and stddev fails (without the assert,
\* random.gauss raises on None), or the distribution is unknown (ValueError)
Random_raises(s) ==
    IF s.distribution = "uniform" THEN FALSE
    ELSE IF s.distribution = "normal" THEN ~(s.mean # None /\ s.stddev # None)
    ELSE TRUE

Random_propose(s) ==
    IF s.distribution = "uniform"
    THEN {Clamp(x) : x \in {y \in s.samples : game.min_offer <= y /\ y <= game.max_offer}}
    ELSE {Clamp(x) : x \in s.samples}

\* RiskAwareProposer(offer_levels): offer_levels is a sequence of distinct
\* levels; stats maps each level to its counters
RiskAwareProposer(offer_levels) ==
    [kind |-> "RiskAware",
     offer_levels |-> offer_levels,
     stats |-> [x \in {offer_levels[i] : i \in 1 .. Len(offer_levels)} |->
                    [trials |-> 0, accepts |-> 0]],
     rejection_penalties |-> << >>]

\* sum(self.rejection_penalties)
RECURSIVE SumSeq(_)
SumSeq(q) == IF Len(q) = 0 THEN 0 ELSE q[1] + SumSeq(Tail(q))

\* a fraction num / den with den > 0
Frac(num, den) == [num |-> num, den |-> den]

\* expected_utility > best_expected_utility, on fractions
FracGreater(e, f) == e.num * f.den > f.num * e.den

\* p_accept: 0.5 if the level is untried, else accepts / trials
RiskAware_p_accept(s, offer) ==
    IF s.stats[offer].trials = 0
    THEN Frac(1, 2)
    ELSE Frac(s.stats[offer].accepts, s.stats[offer].trials)

\* avg_reject_utility: the average of rejection_penalties, or the default
\* flat cost + proposer_bad of self_player when the list is empty
RiskAware_avg_reject_utility(s, self_player) ==
    IF Len(s.rejection_penalties) > 0
    THEN Frac(SumSeq(s.rejection_penalties), Len(s.rejection_penalties))
    ELSE IF self_player = "player1"
         THEN Frac(game.player_1_bad + game.proposer_bad, 1)
         ELSE Frac(game.player_2_bad + game.proposer_bad, 1)

\* expected_utility = p_accept * offer + (1 - p_accept) * avg_reject_utility
RiskAware_expected_utility(s, self_player, offer) ==
    LET pa  == RiskAware_p_accept(s, offer)
        avg == RiskAware_avg_reject_utility(s, self_player)
    IN  Frac(pa.num * offer * avg.den + (pa.den - pa.num) * avg.num,
             pa.den * avg.den)

\* the loop of propose: the first level, in list order, whose expected utility
\* no earlier level reaches and no later level exceeds
RiskAware_propose(s, self_player) ==
    LET n     == Len(s.offer_levels)
        eu(i) == RiskAware_expected_utility(s, self_player, s.offer_levels[i])
        best  == CHOOSE i \in 1 .. n :
                    /\ \A j \in 1 .. (i - 1) : FracGreater(eu(i), eu(j))
                    /\ \A j \in (i + 1) .. n : ~FracGreater(eu(j), eu(i))
    IN  s.offer_levels[best]

\* receive_feedback(accepted, offer, game): called before the role transition,
\* so game.proposer is the player who made the offer
RiskAware_receive_feedback(s, accepted, offer) ==
    LET counted == [s EXCEPT !.stats[offer].trials = @ + 1]
    IN  IF accepted
        THEN [counted EXCEPT !.stats[offer].accepts = @ + 1]
        ELSE [counted EXCEPT !.rejection_penalties =
                                Append(@, get_bad_utility(proposer, TRUE))]

\* Player.make_offer: the possible results of proposer_strategy.propose, each
\* an offer with the strategy's fields after the call
make_offer(player) ==
    LET s == proposer_strategy[player] IN
    CASE s.kind = "Conceding"    -> {[offer |-> Conceding_propose(s), strategy |-> s]}
      [] s.kind = "Learning"     -> {[offer |-> Learning_propose(s), strategy |-> s]}
      [] s.kind = "TitForTat"    -> {[offer |-> TitForTat_propose(s), strategy |-> s]}
      [] s.kind = "BinarySearch" ->
            {[offer |-> BinarySearch_propose(s).last_offer,
              strategy |-> BinarySearch_propose(s)]}
      [] s.kind = "Random"       -> {[offer |-> x, strategy |-> s] : x \in Random_propose(s)}
      [] s.kind = "RiskAware"    -> {[offer |-> RiskAware_propose(s, player), strategy |-> s]}

\* Player.make_offer does not return: propose raised
make_offer_raises(player) ==
    LET s == proposer_strategy[player] IN
    s.kind = "Random" /\ Random_raises(s)

\* proposer_strategy.receive_feedback(accepted, offer, game)
receive_feedback(s, accepted, offer) ==
    CASE s.kind = "Conceding"    -> Conceding_receive_feedback(s, accepted, offer)
      [] s.kind = "Learning"     -> Learning_receive_feedback(s, accepted, offer)
      [] s.kind = "BinarySearch" -> BinarySearch_receive_feedback(s, accepted, offer)
      [] s.kind = "RiskAware"    -> RiskAware_receive_feedback(s, accepted, offer)
      [] OTHER                   -> s

\* hasattr(strategy, "observe_offer_from_opponent")
HasObserve(s) == s.kind = "TitForTat"

\* ------------------------------------------------------- responder strategies
UtilitarianResponder == [kind |-> "Utilitarian"]

\* mutant: the comparison is inverted
Utilitarian_respond_inverted(s, offer, self_player) ==
    LET bad_utility == IF self_player = "player1"
                       THEN game.player_1_bad + game.receiver_bad
                       ELSE game.player_2_bad + game.receiver_bad
    IN  [accepted |-> (-offer < bad_utility), strategy |-> s]

Utilitarian_respond(s, offer, self_player) ==
    LET bad_utility == IF self_player = "player1"
                       THEN game.player_1_bad + game.receiver_bad
                       ELSE game.player_2_bad + game.receiver_bad
    IN  [accepted |-> (-offer > bad_utility), strategy |-> s]

TitForTatResponder == [kind |-> "TitForTat", last_offer |-> None]

TitForTat_respond(s, offer, self_player) ==
    LET current_utility == -offer
        bad_utility == IF self_player = "player1"
                       THEN game.player_1_bad + game.receiver_bad
                       ELSE game.player_2_bad + game.receiver_bad
    IN  IF s.last_offer = None
        THEN [accepted |-> (current_utility > bad_utility), strategy |-> s]
        ELSE [accepted |-> (current_utility >= s.last_offer[1]
                            /\ current_utility > bad_utility),
              strategy |-> s]

StrategicRejectorResponder(stagnation_tolerance, epsilon, min_offer) ==
    [kind |-> "StrategicRejector", stagnation_tolerance |-> stagnation_tolerance,
     epsilon |-> epsilon, prev_offer |-> None, streak |-> 0, min_offer |-> min_offer]

\* mutant: the streak may equal the tolerance before an offer is rejected
StrategicRejector_respond_late(s, offer, self_player) ==
    LET responder_utility == -offer
        reject_utility == get_bad_utility(self_player, FALSE)
    IN  IF responder_utility < reject_utility
        THEN [accepted |-> FALSE, strategy |-> s]
        ELSE IF offer <= s.min_offer + s.epsilon
        THEN [accepted |-> TRUE, strategy |-> s]
        ELSE IF s.prev_offer = None
        THEN [accepted |-> TRUE, strategy |-> [s EXCEPT !.prev_offer = Some(offer)]]
        ELSE LET streak == IF offer >= s.prev_offer[1] - s.epsilon
                           THEN s.streak + 1
                           ELSE 0
             IN  [accepted |-> (streak <= s.stagnation_tolerance),
                  strategy |-> [s EXCEPT !.streak = streak, !.prev_offer = Some(offer)]]

\* mutant: a lower offer does not reset the streak
StrategicRejector_respond_noreset(s, offer, self_player) ==
    LET responder_utility == -offer
        reject_utility == get_bad_utility(self_player, FALSE)
    IN  IF responder_utility < reject_utility
        THEN [accepted |-> FALSE, strategy |-> s]
        ELSE IF offer <= s.min_offer + s.epsilon
        THEN [accepted |-> TRUE, strategy |-> s]
        ELSE IF s.prev_offer = None
        THEN [accepted |-> TRUE, strategy |-> [s EXCEPT !.prev_offer = Some(offer)]]
        ELSE LET streak == IF offer >= s.prev_offer[1] - s.epsilon
                           THEN s.streak + 1
                           ELSE s.streak
             IN  [accepted |-> (streak < s.stagnation_tolerance),
                  strategy |-> [s EXCEPT !.streak = streak, !.prev_offer = Some(offer)]]

\* mutant: a rejection for stagnation starts the streak afresh
StrategicRejector_respond_forgive(s, offer, self_player) ==
    LET responder_utility == -offer
        reject_utility == get_bad_utility(self_player, FALSE)
    IN  IF responder_utility < reject_utility
        THEN [accepted |-> FALSE, strategy |-> s]
        ELSE IF offer <= s.min_offer + s.epsilon
        THEN [accepted |-> TRUE, strategy |-> s]
        ELSE IF s.prev_offer = None
        THEN [accepted |-> TRUE, strategy |-> [s EXCEPT !.prev_offer = Some(offer)]]
        ELSE LET streak == IF offer >= s.prev_offer[1] - s.epsilon
                           THEN s.streak + 1
                           ELSE 0
             IN  [accepted |-> (streak < s.stagnation_tolerance),
                  strategy |-> [s EXCEPT !.streak = IF streak < s.stagnation_tolerance
                                                    THEN streak ELSE 0,
                                         !.prev_offer = Some(offer)]]

\* mutant: offers at the floor go through the stagnation logic too
StrategicRejector_respond_nofloor(s, offer, self_player) ==
    LET responder_utility == -offer
        reject_utility == get_bad_utility(self_player, FALSE)
    IN  IF responder_utility < reject_utility
        THEN [accepted |-> FALSE, strategy |-> s]
        ELSE IF s.prev_offer = None
        THEN [accepted |-> TRUE, strategy |-> [s EXCEPT !.prev_offer = Some(offer)]]
        ELSE LET streak == IF offer >= s.prev_offer[1] - s.epsilon
                           THEN s.streak + 1
                           ELSE 0
             IN  [accepted |-> (streak < s.stagnation_tolerance),
                  strategy |-> [s EXCEPT !.streak = streak, !.prev_offer = Some(offer)]]

StrategicRejector_respond(s, offer, self_player) ==
    LET responder_utility == -offer
        reject_utility == get_bad_utility(self_player, FALSE)
    IN  IF responder_utility < reject_utility
        THEN [accepted |-> FALSE, strategy |-> s]
        ELSE IF offer <= s.min_offer + s.epsilon
        THEN [accepted |-> TRUE, strategy |-> s]
        ELSE IF s.prev_offer = None
        THEN [accepted |-> TRUE, strategy |-> [s EXCEPT !.prev_offer = Some(offer)]]
        ELSE LET streak == IF offer >= s.prev_offer[1] - s.epsilon
                           THEN s.streak + 1
                           ELSE 0
             IN  [accepted |-> (streak < s.stagnation_tolerance),
                  strategy |-> [s EXCEPT !.streak = streak, !.prev_offer = Some(offer)]]

\* Player.respond_to_offer
respond_to_offer(player, offer) ==
    LET s == responder_strategy[player] IN
    CASE s.kind = "Utilitarian"       -> Utilitarian_respond(s, offer, player)
      [] s.kind = "TitForTat"         -> TitForTat_respond(s, offer, player)
      [] s.kind = "StrategicRejector" -> StrategicRejector_respond(s, offer, player)

\* ---------------------------------------------------------------- the engine
\* Game.__init__ with Player.__init__ for both players: the state after construction
Game(g, ps1, rs1, ps2, rs2) ==
    /\ game = g
    /\ p_current = g.p_base
    /\ proposer = "player1"
    /\ receiver = "player2"
    /\ history = << >>
    /\ utility = [pl \in Players |-> 0]
    /\ proposer_strategy = [pl \in Players |-> IF pl = "player1" THEN ps1 ELSE ps2]
    /\ responder_strategy = [pl \in Players |-> IF pl = "player1" THEN rs1 ELSE rs2]
    /\ pc = "init"
    /\ n_rounds = 0
    /\ rounds_done = 0
    /\ calls = << >>

\* the keyword arguments of Game.__init__
GameConfig(p, bump, p1_bad, p2_bad, prop_bad, recv_bad, lo, hi, prop_range, recv_range) ==
    [p_base |-> p, p_reject_bump |-> bump,
     player_1_bad |-> p1_bad, player_2_bad |-> p2_bad,
     proposer_bad |-> prop_bad, receiver_bad |-> recv_bad,
     min_offer |-> lo, max_offer |-> hi,
     proposer_random_penalty_range |-> prop_range,
     receiver_random_penalty_range |-> recv_range]

\* mutant: an accepted round leaves p_current as it is
ResetP_keep == p_current

\* accepted branch: if self.p_reset_on_accept: self.p_current = self.p_base
ResetP == game.p_base

\* rejected branch: self.p_current = min(1.0, self.p_current + self.p_reject_bump)
BumpP == Min(PScale, p_current + game.p_reject_bump)

\* mutant: the responder is credited the offer instead of debited
AcceptUtilities_credit(offer) ==
    [pl \in Players |-> IF pl \in {proposer, receiver} THEN utility[pl] + offer
                        ELSE utility[pl]]

\* accepted branch: proposer.utility += offer; receiver.utility += -offer
AcceptUtilities(offer) ==
    [pl \in Players |->
        IF pl = proposer THEN utility[pl] + offer
        ELSE IF pl = receiver THEN utility[pl] + (-offer)
        ELSE utility[pl]]

\* mutant: the proposer is charged the responder's role cost
proposer_penalty_receiver(rp) ==
    get_bad_utility(proposer, FALSE) + Uniform(game.proposer_random_penalty_range, rp)

\* the penalties of the rejected branch, jitter included
proposer_penalty(rp) ==
    get_bad_utility(proposer, TRUE) + Uniform(game.proposer_random_penalty_range, rp)

receiver_penalty(rr) ==
    get_bad_utility(receiver, FALSE) + Uniform(game.receiver_random_penalty_range, rr)

\* mutant: the penalties replace the utilities instead of adding to them
RejectUtilities_assign(rp, rr) ==
    [pl \in Players |->
        IF pl = proposer THEN proposer_penalty(rp)
        ELSE IF pl = receiver THEN receiver_penalty(rr)
        ELSE utility[pl]]

\* rejected branch: proposer.utility += proposer_penalty; receiver.utility += receiver_penalty
RejectUtilities(rp, rr) ==
    [pl \in Players |->
        IF pl = proposer THEN utility[pl] + proposer_penalty(rp)
        ELSE IF pl = receiver THEN utility[pl] + receiver_penalty(rr)
        ELSE utility[pl]]

\* mutant: the record is built before the round is settled
HistoryRecord_before(offer, accepted, u, p) ==
    [round |-> Len(history) + 1,
     proposer |-> proposer,
     offer |-> offer,
     accepted |-> accepted,
     player1_utility |-> utility["player1"],
     player2_utility |-> utility["player2"],
     next_round_switching_prob |-> p_current]

\* the dict appended to self.history
HistoryRecord(offer, accepted, u, p) ==
    [round |-> Len(history) + 1,
     proposer |-> proposer,
     offer |-> offer,
     accepted |-> accepted,
     player1_utility |-> u["player1"],
     player2_utility |-> u["player2"],
     next_round_switching_prob |-> p]

\* mutant: the draw is compared with <=
SwitchRoles_le(r, p) == r <= p

\* maybe_switch_roles: swap iff random.random() < self.p_current
SwitchRoles(r, p) == r < p

\* mutant: the feedback goes to the responder's proposer strategy
FeedbackTarget_receiver(prop, recv) == recv

\* self.proposer.proposer_strategy.receive_feedback(...): the player whose
\* proposer strategy is fed back
FeedbackTarget(prop, recv) == prop

\* one call made by play_round: the operation, the object it is called on (a
\* strategy of a player, the history list, or the game itself) and its arguments
Call(op, player, object, args) ==
    [op |-> op, player |-> player, object |-> object, args |-> args]

\* the calls of the body of play_round, in source order, for the given roles:
\* make_offer, the optional observe_offer_from_opponent, respond_to_offer,
\* history.append, receive_feedback, maybe_switch_roles
RoundCalls(prop, recv, observes, offer, accepted, round, p) ==
    << Call("propose", prop, "proposer_strategy", << >>) >>
    \o (IF observes
        THEN << Call("observe_offer_from_opponent", recv, "proposer_strategy", << offer >>) >>
        ELSE << >>)
    \o << Call("respond", recv, "responder_strategy", << offer >>),
          Call("append", "game", "history", << round >>),
          Call("receive_feedback", FeedbackTarget(prop, recv), "proposer_strategy",
               << accepted, offer >>),
          Call("maybe_switch_roles", "game", "game", << p >>) >>

\* Game.play_round, as one iteration of the loop of run()
PlayRound ==
    /\ pc = "running"
    /\ rounds_done < n_rounds
    /\ ~make_offer_raises(proposer)
    /\ \E mo \in make_offer(proposer) :
       \E rp \in RandomDraws, rr \in RandomDraws, r \in RandomDraws :
         LET offer == mo.offer
             ps1 == [proposer_strategy EXCEPT ![proposer] = mo.strategy]
             ps2 == IF HasObserve(ps1[receiver])
                    THEN [ps1 EXCEPT ![receiver] = observe_offer_from_opponent(@, offer)]
                    ELSE ps1
             resp == respond_to_offer(receiver, offer)
             accepted == resp.accepted
             p == IF accepted THEN ResetP ELSE BumpP
             u == IF accepted THEN AcceptUtilities(offer) ELSE RejectUtilities(rp, rr)
         IN  /\ responder_strategy' = [responder_strategy EXCEPT ![receiver] = resp.strategy]
             /\ p_current' = p
             /\ utility' = u
             /\ history' = Append(history, HistoryRecord(offer, accepted, u, p))
             /\ proposer_strategy' =
                    [ps2 EXCEPT ![FeedbackTarget(proposer, receiver)] =
                                    receive_feedback(@, accepted, offer)]
             /\ calls' = RoundCalls(proposer, receiver, HasObserve(ps1[receiver]),
                                    offer, accepted, Len(history) + 1, p)
             /\ IF SwitchRoles(r, p)
                THEN proposer' = receiver /\ receiver' = proposer
                ELSE UNCHANGED << proposer, receiver >>
    /\ rounds_done' = rounds_done + 1
    /\ UNCHANGED << game, pc, n_rounds >>

\* a call of Game.run(n) on the constructed game
Run(n) ==
    /\ pc = "init"
    /\ n_rounds' = n
    /\ rounds_done' = 0
    /\ pc' = "running"
    /\ UNCHANGED << game, p_current, proposer, receiver, history, utility,
                    proposer_strategy, responder_strategy, calls >>

\* mutant: run() returns before the loop is exhausted
RunReturn_early ==
    /\ pc = "running"
    /\ pc' = "done"
    /\ UNCHANGED << game, p_current, proposer, receiver, history, utility,
                    proposer_strategy, responder_strategy, n_rounds, rounds_done, calls >>

\* the loop of run() is exhausted and run() returns (plot is False)
RunReturn ==
    /\ pc = "running"
    /\ rounds_done >= n_rounds
    /\ pc' = "done"
    /\ UNCHANGED << game, p_current, proposer, receiver, history, utility,
                    proposer_strategy, responder_strategy, n_rounds, rounds_done, calls >>

StartRun == \E n \in 0 .. MaxRounds : Run(n)

Next == StartRun \/ PlayRound \/ RunReturn

\* Game.play_round when make_offer raises: the exception leaves play_round and
\* run() at the first statement of the round
PlayRoundRaises ==
    /\ pc = "running"
    /\ rounds_done < n_rounds
    /\ make_offer_raises(proposer)
    /\ pc' = "raised"
    /\ calls' = << Call("propose", proposer, "proposer_strategy", << >>) >>
    /\ UNCHANGED << game, p_current, proposer, receiver, history, utility,
                    proposer_strategy, responder_strategy, n_rounds, rounds_done >>

NextRaising == StartRun \/ PlayRound \/ PlayRoundRaises \/ RunReturn

\* ------------------------------------------------------------ specifications
\* Engine configurations: every combination of a switching probability (in and
\* out of [0, 1]), a rejection bump (negative, zero, positive), equal or
\* different flat costs and absent or present penalty jitter.
EngineGames ==
    {GameConfig(p, b, M(-10), c, M(-5), M(5), M(0), M(100), rg[1], rg[2]) :
        p \in {0, 1, PScale, PScale + 1},
        b \in {-1, 0, 1},
        c \in {M(-10), M(-20)},
        rg \in {<< <<0, 0>>, <<0, 0>> >>, << <<0, M(2)>>, <<M(1), M(1)>> >>}}

Init ==
    \E g \in EngineGames :
        Game(g, ConcedingProposer(M(100), M(50)), UtilitarianResponder,
                LearningProposer(M(0), M(4)), UtilitarianResponder)

Spec == Init /\ [][Next]_vars

\* Proposer specification: both offer bounds, with and without role switching,
\* every pairing of the proposer variants, against utilitarian or
\* strategic-rejector responders.
ProposerGames ==
    {GameConfig(p, 0, M(-10), M(-40), M(-5), M(5), b[1], b[2], <<0, 0>>, <<0, 0>>) :
        p \in {0, 1},
        b \in {<<M(0), M(100)>>, <<M(10), M(50)>>}}

ProposerVariants(g) ==
    {ConcedingProposer(M(100), M(10)),
     ConcedingProposer(M(60), M(25)),
     LearningProposer(M(20), M(10)),
     TitForTatProposer,
     BinarySearchProposer(g.min_offer, g.max_offer),
     BinarySearchProposer(M(30), M(31)),
     RandomProposer("normal", Some(M(75)), Some(M(45)), {M(30), M(120)})}

ResponderVariants ==
    {UtilitarianResponder, StrategicRejectorResponder(2, M(1) \div 100, M(0))}

InitProposers ==
    \E g \in ProposerGames :
    \E ps1 \in ProposerVariants(g), ps2 \in ProposerVariants(g) :
    \E rs \in ResponderVariants :
        \* without role switching player2 never proposes: one pairing is enough
        /\ (g.p_base = 0) => (ps2 = ps1)
        /\ Game(g, ps1, rs, ps2, rs)

SpecProposers == InitProposers /\ [][Next]_vars

\* the default epsilon of StrategicRejectorResponder, 1e-2
Epsilon == Scale \div 100

\* Responder specification: player1 always proposes (p = 0) or the roles
\* alternate (p = 1); a conceding proposer or a random one whose draws repeat,
\* move by less and by more than epsilon, hit the floor, and are exactly as
\* good as rejecting (for player2) or worse (for player1); every responder
\* with state.
ResponderGames ==
    {GameConfig(p, 0, M(-30), M(-40), M(-5), M(5), M(0), M(100), <<0, 0>>, <<0, 0>>) :
        p \in {0, PScale}}

RepeatingProposers ==
    {ConcedingProposer(M(35), M(10)),
     RandomProposer("uniform", None, None,
                    {M(0), M(20), M(20) + (Epsilon \div 2), M(35)})}

StatefulResponders ==
    {TitForTatResponder} \cup
    {StrategicRejectorResponder(t, Epsilon, M(0)) : t \in {1, 2, 4}}

InitResponders ==
    \E g \in ResponderGames :
    \E ps \in RepeatingProposers :
    \E rs \in StatefulResponders :
        Game(g, ps, rs, ps, rs)

SpecResponders == InitResponders /\ [][Next]_vars

\* Scenario specification: Game(p=0, player_1_bad=-10, player_2_bad=-10,
\* proposer_bad=-5, receiver_bad=5, min_offer=0, max_offer=100) with a
\* ConcedingProposer(start_offer, 10) against a UtilitarianResponder, for start
\* offers that are far worse than, exactly as good as, just better than and far
\* better than rejecting.
ScenarioGame ==
    GameConfig(0, 0, M(-10), M(-10), M(-5), M(5), M(0), M(100), <<0, 0>>, <<0, 0>>)

ScenarioStartOffers == {M(100), M(5), M(4), M(0)}

InitScenario ==
    \E start_offer \in ScenarioStartOffers :
        Game(ScenarioGame,
             ConcedingProposer(start_offer, M(10)), UtilitarianResponder,
             ConcedingProposer(start_offer, M(10)), UtilitarianResponder)

SpecScenario == InitScenario /\ [][Next]_vars

\* Error specification: games with and without role switching in which each
\* player's RandomProposer is valid (uniform, or normal with mean and stddev) or
\* not (normal without mean, without stddev, without both; an unknown name).
RandomVariants ==
    {RandomProposer("uniform", None, None, {M(2), M(50)}),
     RandomProposer("normal", Some(M(20)), Some(M(30)), {M(2), M(50)}),
     RandomProposer("normal", None, Some(M(30)), {M(2), M(50)}),
     RandomProposer("normal", Some(M(20)), None, {M(2), M(50)}),
     RandomProposer("normal", None, None, {M(2), M(50)}),
     RandomProposer("triangular", Some(M(20)), Some(M(30)), {M(2), M(50)})}

InitRaising ==
    \E p \in {0, 1} :
    \E ps1 \in RandomVariants, ps2 \in RandomVariants :
        Game(GameConfig(p, 0, M(-10), M(-10), M(-5), M(5), M(0), M(100), <<0, 0>>, <<0, 0>>),
             ps1, UtilitarianResponder, ps2, UtilitarianResponder)

SpecRaising == InitRaising /\ [][NextRaising]_vars

\* Risk-aware specification: games with and without role switching and with
\* and without a random penalty on the proposer, player1 a RiskAwareProposer,
\* player2 a RiskAwareProposer or a ConcedingProposer, utilitarian responders.
RiskAwareGames ==
    {GameConfig(p, 0, M(-10), c, M(-5), M(5), M(0), M(100), pr, <<0, 0>>) :
        p \in {0, 1}, c \in {M(-10), M(-20)}, pr \in {<<0, 0>>, <<0, M(2)>>}}

RiskAwareVariants ==
    {RiskAwareProposer(<< M(0), M(10), M(20) >>),
     RiskAwareProposer(<< M(4), M(2), M(30) >>)}

InitRiskAware ==
    \E g \in RiskAwareGames :
    \E ps1 \in RiskAwareVariants :
    \E ps2 \in RiskAwareVariants \cup {ConcedingProposer(M(20), M(10))} :
        Game(g, ps1, UtilitarianResponder, ps2, UtilitarianResponder)

SpecRiskAware == InitRiskAware /\ [][Next]_vars

\* Lock-in specification: games without and with certain role switching in
\* which both players draw their offers from the floor, an offer above it, one
\* within epsilon of that, and the offer that is exactly as good as rejecting
\* for player2 and worse for player1, against StrategicRejectorResponders of
\* tolerance 1 and 2.
LockInProposer ==
    RandomProposer("uniform", None, None, {M(0), M(20), M(20) + (Epsilon \div 2), M(35)})

InitLockIn ==
    \E g \in ResponderGames :
    \E t \in {1, 2} :
        Game(g, LockInProposer, StrategicRejectorResponder(t, Epsilon, M(0)),
                LockInProposer, StrategicRejectorResponder(t, Epsilon, M(0)))

SpecLockIn == InitLockIn /\ [][Next]_vars

\* Floor specification: games with p = 0, with and without a rejection bump,
\* in which rejecting is worse for player2 than, exactly as good as, or better
\* than accepting the offer min_offer; player1 a ConcedingProposer against
\* player2's StrategicRejectorResponder. The pairs concede in steps larger and
\* smaller than epsilon, start above what player2 can accept, do not concede at
\* all (decrement 0), or face a responder whose floor is below game.min_offer.
FloorGames ==
    {GameConfig(0, b, M(-30), c, M(-5), M(5), M(0), M(100), <<0, 0>>, <<0, 0>>) :
        b \in {0, 1}, c \in {M(-40), M(-5), M(-4)}}

FloorPairs ==
    {<< ConcedingProposer(M(20), M(10)), StrategicRejectorResponder(1, Epsilon, M(0)) >>,
     << ConcedingProposer(M(10), M(10)), StrategicRejectorResponder(2, Epsilon, M(0)) >>,
     << ConcedingProposer(M(50), M(25)), StrategicRejectorResponder(2, Epsilon, M(0)) >>,
     << ConcedingProposer(Epsilon + (Epsilon \div 2), Epsilon \div 2),
        StrategicRejectorResponder(1, Epsilon, M(0)) >>,
     << ConcedingProposer(M(10), 0), StrategicRejectorResponder(1, Epsilon, M(0)) >>,
     << ConcedingProposer(M(10), M(10)), StrategicRejectorResponder(1, Epsilon, M(-10)) >>}

InitFloor ==
    \E g \in FloorGames :
    \E pair \in FloorPairs :
        Game(g, pair[1], UtilitarianResponder, LearningProposer(M(20), M(10)), pair[2])

SpecFloor == InitFloor /\ [][Next]_vars

\* run() is a plain sequential loop: an iteration that can run does run
FairSpecFloor == SpecFloor /\ WF_vars(PlayRound) /\ WF_vars(RunReturn)

\* run() is a plain sequential loop: an iteration that can run does run
FairSpec == Spec /\ WF_vars(PlayRound) /\ WF_vars(RunReturn)

\* ------------------------------------------------------------------ claims
LastRecord == history[Len(history)]

RoundPlayed == Len(history') = Len(history) + 1

\* C1: p_current is within [0, 1] in the initial state and after every
\* play_round, whatever p and p_reject_bump the game was configured with.
C1_PCurrentInUnitInterval == 0 <= p_current /\ p_current <= PScale

\* C2: in every accepted round the proposer gains the offer and the responder
\* gains -offer, so the change of player1.utility is the negative of the change
\* of player2.utility, whichever player proposed.
C2_AcceptedRoundIsZeroSum ==
    [][(RoundPlayed /\ history'[Len(history')].accepted) =>
          LET offer == history'[Len(history')].offer IN
          /\ utility'[proposer] - utility[proposer] = offer
          /\ utility'[receiver] - utility[receiver] = -offer
          /\ utility'["player1"] - utility["player1"]
                = -(utility'["player2"] - utility["player2"])
          /\ utility'["player1"] + utility'["player2"]
                = utility["player1"] + utility["player2"]]_vars

\* an accepted round with a nonzero offer made by player2 has been played
C2_Witness ==
    /\ Len(history) > 0
    /\ LastRecord.accepted
    /\ LastRecord.offer # 0
    /\ LastRecord.proposer = "player2"

\* Replaying one record for one player with zero jitter: on accepted the offer
\* goes to the recorded proposer and -offer to the other player, on rejected
\* the player's flat cost plus its role cost.
ReplayDelta(rec, pl) ==
    IF rec.accepted
    THEN (IF rec.proposer = pl THEN rec.offer ELSE -rec.offer)
    ELSE (IF pl = "player1" THEN game.player_1_bad ELSE game.player_2_bad)
         + (IF rec.proposer = pl THEN game.proposer_bad ELSE game.receiver_bad)

RECURSIVE Replay(_, _)
Replay(k, pl) == IF k = 0 THEN 0 ELSE Replay(k - 1, pl) + ReplayDelta(history[k], pl)

ReplayReproduces ==
    /\ \A k \in 1 .. Len(history) :
          /\ Replay(k, "player1") = history[k].player1_utility
          /\ Replay(k, "player2") = history[k].player2_utility
    /\ \A pl \in Players : Replay(Len(history), pl) = utility[pl]

NoJitter ==
    /\ game.proposer_random_penalty_range = <<0, 0>>
    /\ game.receiver_random_penalty_range = <<0, 0>>

\* C4 as stated: after run(N), for any game, the zero-jitter replay of the
\* history reproduces every recorded utility and the final utilities.
C4_ReplayAnyGame == (pc = "done") => ReplayReproduces

\* C4 as amended: after run(N) of a game whose two random penalty ranges are
\* the default (0, 0), the zero-jitter replay of the history reproduces every
\* recorded utility and the final utilities.
C4_ReplayWithoutJitter == (pc = "done" /\ NoJitter) => ReplayReproduces

\* a finished jitter-free run with accepted and rejected rounds of both proposers
C4_Witness ==
    /\ pc = "done"
    /\ NoJitter
    /\ game.player_1_bad # game.player_2_bad
    /\ \E i, j, k \in 1 .. Len(history) :
          /\ history[i].accepted /\ history[i].offer # 0
          /\ ~history[j].accepted /\ history[j].proposer = "player1"
          /\ ~history[k].accepted /\ history[k].proposer = "player2"

C3_OffersWithinBounds ==
    \A k \in 1 .. Len(history) :
        game.min_offer <= history[k].offer /\ history[k].offer <= game.max_offer

IsBinarySearch(pl) == proposer_strategy[pl].kind = "BinarySearch"

\* C6: every receive_feedback call the engine makes on a BinarySearchProposer
\* leaves low <= high and does not widen high - low, whatever the outcomes.
C6_BracketNarrows ==
    [][\A pl \in Players :
          (IsBinarySearch(pl) /\ RoundPlayed /\ proposer = pl) =>
              /\ proposer_strategy'[pl].low <= proposer_strategy'[pl].high
              /\ proposer_strategy'[pl].high - proposer_strategy'[pl].low
                    <= proposer_strategy[pl].high - proposer_strategy[pl].low]_vars

\* a BinarySearchProposer has had an offer accepted and an offer rejected, and
\* both ends of its bracket have moved
C6_Witness ==
    \E pl \in Players :
        /\ IsBinarySearch(pl)
        /\ \E j, k \in 1 .. Len(history) :
              /\ history[j].proposer = pl /\ history[j].accepted
              /\ history[k].proposer = pl /\ ~history[k].accepted
        /\ proposer_strategy[pl].low > game.min_offer
        /\ proposer_strategy[pl].high < game.max_offer

IsConceding(pl) == proposer_strategy[pl].kind = "Conceding"

\* rounds k < m were both proposed by pl, pl proposed none between them, and
\* the offer of round k was rejected
SuccessiveRejected(pl, k, m) ==
    /\ k < m
    /\ history[k].proposer = pl
    /\ history[m].proposer = pl
    /\ ~history[k].accepted
    /\ \A j \in (k + 1) .. (m - 1) : history[j].proposer # pl

\* C7: a ConcedingProposer never offers more than in its previous proposing
\* round when that round's offer was rejected, and never offers less than
\* game.min_offer.
C7_ConcedingNonIncreasing ==
    \A pl \in Players : IsConceding(pl) =>
        /\ \A k \in 1 .. Len(history) :
              history[k].proposer = pl => history[k].offer >= game.min_offer
        /\ \A k, m \in 1 .. Len(history) :
              SuccessiveRejected(pl, k, m) => history[m].offer <= history[k].offer

\* a ConcedingProposer was rejected, conceded to a strictly lower offer, and has
\* been held at game.min_offer with its current offer below it
C7_Witness ==
    \E pl \in Players :
        /\ IsConceding(pl)
        /\ \E k, m \in 1 .. Len(history) :
              SuccessiveRejected(pl, k, m) /\ history[m].offer < history[k].offer
        /\ \E k \in 1 .. Len(history) :
              /\ history[k].proposer = pl
              /\ history[k].offer = game.min_offer
        /\ proposer_strategy[pl].current_offer < game.min_offer

\* the records of the rounds in which pl was the responder, in order
Responses(pl) == SelectSeq(history, LAMBDA rec : rec.proposer # pl)

\* C8: once a TitForTatResponder has accepted an offer giving it utility U,
\* every offer it accepts in a later round gives it utility >= U.
C8_TitForTatRatchet ==
    \A pl \in Players : responder_strategy[pl].kind = "TitForTat" =>
        LET R == Responses(pl) IN
        \A j, k \in 1 .. Len(R) :
            (j < k /\ R[j].accepted /\ R[k].accepted) => -R[k].offer >= -R[j].offer

IsStrategicRejector(pl) == responder_strategy[pl].kind = "StrategicRejector"

\* the offer passes steps 1 and 2 of respond: it is not worse for pl than
\* rejecting and it is above the floor min_offer + epsilon
AboveFloor(pl, offer) ==
    /\ -offer >= get_bad_utility(pl, FALSE)
    /\ offer > responder_strategy[pl].min_offer + responder_strategy[pl].epsilon

\* the first m offers made to pl are one and the same offer, above the floor
SameOfferRepeated(pl, m) ==
    LET R == Responses(pl) IN
    /\ m <= Len(R)
    /\ \A k \in 1 .. m : R[k].offer = R[1].offer /\ AboveFloor(pl, R[k].offer)

\* C9: a fresh StrategicRejectorResponder with stagnation_tolerance = 4 that is
\* made the same offer (above the floor) every round accepts the first 4 of
\* these offers and rejects the 5th.
C9_AcceptsFourRejectsFifth ==
    \A pl \in Players :
        (IsStrategicRejector(pl) /\ responder_strategy[pl].stagnation_tolerance = 4) =>
            LET R == Responses(pl) IN
            \A m \in 1 .. Len(R) : SameOfferRepeated(pl, m) =>
                IF m <= 4 THEN R[m].accepted ELSE (m = 5 => ~R[m].accepted)

\* a tolerance-4 responder has been made the same offer five times
C9_Witness ==
    \E pl \in Players :
        /\ IsStrategicRejector(pl)
        /\ responder_strategy[pl].stagnation_tolerance = 4
        /\ SameOfferRepeated(pl, 5)
        /\ ~Responses(pl)[5].accepted
        /\ responder_strategy[pl].streak = 4

\* the last offer made to pl (as the round begins) is above the floor and was
\* rejected, hence rejected for stagnation
StagnationRejected(pl) ==
    LET R == Responses(pl) IN
    /\ IsStrategicRejector(pl)
    /\ Len(R) > 0
    /\ AboveFloor(pl, R[Len(R)].offer)
    /\ ~R[Len(R)].accepted
    /\ responder_strategy[pl].streak >= responder_strategy[pl].stagnation_tolerance

NewRecord == history'[Len(history')]

RepeatedOffer(pl) == Responses(pl)[Len(Responses(pl))].offer

\* C10 as stated: after a rejection for stagnation, a next offer that differs
\* from the repeated one by more than epsilon, higher or lower (above the floor),
\* resets the streak to 0 and is accepted.
C10_AnyChangeResets ==
    [][(RoundPlayed /\ StagnationRejected(receiver) /\ AboveFloor(receiver, NewRecord.offer)
        /\ (\/ NewRecord.offer > RepeatedOffer(receiver) + responder_strategy[receiver].epsilon
            \/ NewRecord.offer < RepeatedOffer(receiver) - responder_strategy[receiver].epsilon))
       => (NewRecord.accepted /\ responder_strategy'[receiver].streak = 0)]_vars

\* C10 as amended: after a rejection for stagnation, a next offer that is lower
\* than the repeated one by more than epsilon (above the floor) resets the
\* streak to 0 and is accepted.
C10_LowerOfferResets ==
    [][(RoundPlayed /\ StagnationRejected(receiver) /\ AboveFloor(receiver, NewRecord.offer)
        /\ NewRecord.offer < RepeatedOffer(receiver) - responder_strategy[receiver].epsilon)
       => (NewRecord.accepted /\ responder_strategy'[receiver].streak = 0)]_vars

\* a responder that had rejected for stagnation has just accepted a lower offer
C10_Witness ==
    \E pl \in Players :
        LET R == Responses(pl) IN
        /\ IsStrategicRejector(pl)
        /\ Len(R) >= 2
        /\ history[Len(history)].proposer # pl
        /\ AboveFloor(pl, R[Len(R) - 1].offer)
        /\ ~R[Len(R) - 1].accepted
        /\ AboveFloor(pl, R[Len(R)].offer)
        /\ R[Len(R)].offer < R[Len(R) - 1].offer - responder_strategy[pl].epsilon
        /\ R[Len(R)].accepted
        /\ responder_strategy[pl].streak = 0

\* run(1) has been called on the freshly constructed scenario game in which
\* player 1 proposes with ConcedingProposer(start_offer, 10)
ScenarioStarts(start_offer) ==
    /\ pc = "running"
    /\ n_rounds = 1
    /\ rounds_done = 0
    /\ game = ScenarioGame
    /\ proposer_strategy["player1"] = ConcedingProposer(start_offer, M(10))
    /\ responder_strategy["player2"] = UtilitarianResponder

\* C11: in the scenario with start_offer = 100, run for 1 round, the offer 100
\* is rejected and history[0] has round 1, accepted false, player1_utility -15
\* and player2_utility -5.
C11_ScenarioRejected ==
    [][ScenarioStarts(M(100)) =>
          /\ Len(history') = 1
          /\ history'[1].round = 1
          /\ history'[1].offer = M(100)
          /\ history'[1].accepted = FALSE
          /\ history'[1].player1_utility = M(-15)
          /\ history'[1].player2_utility = M(-5)]_vars

\* the one-round run of the start_offer = 100 scenario has returned
C11_Witness ==
    /\ pc = "done"
    /\ n_rounds = 1
    /\ game = ScenarioGame
    /\ Len(history) = 1
    /\ history[1].offer = M(100)
    /\ utility = [pl \in Players |-> IF pl = "player1" THEN M(-15) ELSE M(-5)]

\* C12: in the scenario with start_offer = 0, run for 1 round, the offer 0 is
\* accepted (0 > -5) and history[0] has accepted true, player1_utility 0 and
\* player2_utility 0.
C12_ScenarioAccepted ==
    [][ScenarioStarts(M(0)) =>
          /\ Len(history') = 1
          /\ history'[1].offer = M(0)
          /\ history'[1].accepted = TRUE
          /\ history'[1].player1_utility = 0
          /\ history'[1].player2_utility = 0]_vars

\* the one-round run of the start_offer = 0 scenario has returned
C12_Witness ==
    /\ pc = "done"
    /\ n_rounds = 1
    /\ game = ScenarioGame
    /\ Len(history) = 1
    /\ history[1].offer = M(0)
    /\ history[1].accepted
    /\ proposer_strategy["player1"].current_offer = M(0)

\* the configurations of a RandomProposer the claim names: normal with mean or
\* stddev absent, or a distribution other than uniform and normal
C13_Misconfigured(s) ==
    /\ s.kind = "Random"
    /\ \/ (s.distribution = "normal" /\ (s.mean = None \/ s.stddev = None))
       \/ s.distribution \notin {"uniform", "normal"}

\* C13: propose of a misconfigured RandomProposer ends in the error outcome; the
\* error arises at the propose call of a round and nowhere else, before that
\* round has changed any utility, p_current, role, history or strategy.
C13_MisconfiguredProposeRaises ==
    /\ [][(pc = "running" /\ rounds_done < n_rounds
           /\ C13_Misconfigured(proposer_strategy[proposer]))
          => (/\ pc' = "raised"
              /\ UNCHANGED << utility, p_current, proposer, receiver, history,
                              proposer_strategy, responder_strategy >>)]_vars
    /\ [][(pc' = "raised" /\ pc # "raised")
          => (pc = "running" /\ rounds_done < n_rounds
              /\ C13_Misconfigured(proposer_strategy[proposer]))]_vars

\* player 2's misconfigured proposer raised in a later round of a run, after
\* player 1's valid proposer had played
C13_Witness ==
    /\ pc = "raised"
    /\ Len(history) >= 1
    /\ proposer = "player2"
    /\ rounds_done = Len(history)
    /\ proposer_strategy["player2"].distribution = "normal"
    /\ proposer_strategy["player2"].mean # None
    /\ proposer_strategy["player2"].stddev = None

\* the positions of the calls of the last round with the given operation
CallsOf(op) == {i \in 1 .. Len(calls) : calls[i].op = op}

\* C14: in every round the engine makes exactly one receive_feedback call: on
\* the proposer strategy of the player who made the round's offer, with the
\* round's accepted flag and offer, after the history record is appended and
\* before the role transition; never on a responder strategy nor on the other
\* player's proposer strategy, which the round's feedback leaves as it was.
C14_FeedbackToProposerOnly ==
    /\ [](Len(history) > 0 =>
            /\ Cardinality(CallsOf("receive_feedback")) = 1
            /\ \A i \in CallsOf("receive_feedback") :
                  /\ calls[i].player = LastRecord.proposer
                  /\ calls[i].object = "proposer_strategy"
                  /\ calls[i].args = << LastRecord.accepted, LastRecord.offer >>
                  /\ \E j \in CallsOf("append") : j < i
                  /\ \A j \in CallsOf("maybe_switch_roles") : i < j)
    /\ [][RoundPlayed =>
            /\ calls'[1].op = "propose" /\ calls'[1].player = proposer
            /\ history'[Len(history')].proposer = proposer
            /\ (~HasObserve(proposer_strategy[receiver])
                    => proposer_strategy'[receiver] = proposer_strategy[receiver])
            /\ responder_strategy'[proposer] = responder_strategy[proposer]
            /\ proposer_strategy'[proposer]
                  = receive_feedback(proposer_strategy[proposer],
                                     history'[Len(history')].accepted,
                                     history'[Len(history')].offer)]_vars

\* player 2 made an offer that was rejected and its proposer strategy was fed back
C14_Witness ==
    /\ Len(history) > 0
    /\ LastRecord.proposer = "player2"
    /\ ~LastRecord.accepted
    /\ \E i \in CallsOf("receive_feedback") : calls[i].player = "player2"
    /\ proposer_strategy["player2"].current_offer
          = LastRecord.offer - proposer_strategy["player2"].step_size

FlatCost(pl) == IF pl = "player1" THEN game.player_1_bad ELSE game.player_2_bad

\* C15: in every rejected round of a game with the default (0, 0) penalty
\* ranges the proposer's utility changes by exactly its flat cost + proposer_bad
\* and the responder's by exactly its flat cost + receiver_bad, whichever
\* player holds which role; the offer is not transferred.
C15_RejectionPenalties ==
    [][(RoundPlayed /\ ~NewRecord.accepted /\ NoJitter) =>
          /\ utility'[proposer] - utility[proposer]
                = FlatCost(proposer) + game.proposer_bad
          /\ utility'[receiver] - utility[receiver]
                = FlatCost(receiver) + game.receiver_bad]_vars

\* in a jitter-free game with different flat costs, offers of both players
\* have been rejected, the second after utilities had already moved
C15_Witness ==
    /\ NoJitter
    /\ game.player_1_bad # game.player_2_bad
    /\ \E j, k \in 1 .. Len(history) :
          /\ j < k
          /\ ~history[j].accepted /\ history[j].proposer = "player1"
          /\ ~history[k].accepted /\ history[k].proposer = "player2"
          /\ history[k].offer # 0

\* the number of rejected records at the end of the first n records
RECURSIVE TrailingRejections(_)
TrailingRejections(n) ==
    IF n = 0 \/ history[n].accepted THEN 0 ELSE 1 + TrailingRejections(n - 1)

\* C16: an accepted round sets p_current to p_base and a rejected round sets it
\* to min(1, p_current + p_reject_bump); hence for p_base in [0, 1] and
\* p_reject_bump >= 0, p_current = min(1, p_base + k * p_reject_bump), k the
\* number of consecutive rejected rounds since the last accepted round.
C16_ProbabilityDrift ==
    /\ [][RoundPlayed =>
            IF NewRecord.accepted
            THEN p_current' = game.p_base
            ELSE p_current' = Min(PScale, p_current + game.p_reject_bump)]_vars
    /\ []((0 <= game.p_base /\ game.p_base <= PScale /\ game.p_reject_bump >= 0) =>
            p_current = Min(PScale, game.p_base
                                    + TrailingRejections(Len(history)) * game.p_reject_bump))

\* p_current was bumped, reset by an accepted round, and bumped again up to 1
C16_Witness ==
    /\ 0 <= game.p_base /\ game.p_base < PScale
    /\ game.p_reject_bump > 0
    /\ TrailingRejections(Len(history)) >= 1
    /\ p_current = PScale
    /\ \E j \in 2 .. Len(history) :
          /\ ~history[j - 1].accepted
          /\ history[j].accepted
          /\ history[j].next_round_switching_prob = game.p_base
          /\ history[j - 1].next_round_switching_prob > game.p_base

RolesSwapped == proposer' = receiver /\ receiver' = proposer

\* C17: the proposer and the receiver are the two distinct players (player1
\* proposes first); a step swaps both roles or changes neither; a round that
\* ends with p_current = 0 never swaps them, one that ends with p_current = 1
\* always does.
C17_RoleAssignment ==
    /\ [](proposer # receiver /\ {proposer, receiver} = Players)
    /\ [](Len(history) = 0 => (proposer = "player1" /\ receiver = "player2"))
    /\ [][RolesSwapped \/ UNCHANGED << proposer, receiver >>]_vars
    /\ [][(RoundPlayed /\ p_current' = 0) => UNCHANGED << proposer, receiver >>]_vars
    /\ [][(RoundPlayed /\ p_current' = PScale) => RolesSwapped]_vars
    /\ [][~RoundPlayed => UNCHANGED << proposer, receiver >>]_vars

\* within one game the roles swapped after a round that ended with
\* p_current = 1 and stayed after a round that ended with p_current = 0
C17_Witness ==
    \E j, k \in 1 .. (Len(history) - 1) :
        /\ history[j].next_round_switching_prob = PScale
        /\ history[j + 1].proposer # history[j].proposer
        /\ history[k].next_round_switching_prob = 0
        /\ history[k + 1].proposer = history[k].proposer

\* C20: every history record names as proposer the player who made that
\* round's offer (the roles before the role transition), carries both
\* cumulative utilities as they stand after the round's settlement, and its
\* next_round_switching_prob is the p_current that the role transition
\* following the round uses.
C20_HistoryRecord ==
    [][RoundPlayed =>
          /\ NewRecord.proposer = proposer
          /\ calls'[1] = Call("propose", NewRecord.proposer, "proposer_strategy", << >>)
          /\ NewRecord.player1_utility = utility'["player1"]
          /\ NewRecord.player2_utility = utility'["player2"]
          /\ NewRecord.next_round_switching_prob = p_current'
          /\ calls'[Len(calls')]
                = Call("maybe_switch_roles", "game", "game",
                       << NewRecord.next_round_switching_prob >>)
          /\ (proposer' # proposer => NewRecord.next_round_switching_prob > 0)
          /\ (proposer' = proposer => NewRecord.next_round_switching_prob < PScale)]_vars

\* a rejected round proposed by player2 moved both utilities and p_current,
\* was recorded, and the roles swapped after it
C20_Witness ==
    /\ Len(history) >= 2
    /\ LastRecord.proposer = "player2"
    /\ ~LastRecord.accepted
    /\ proposer = "player1"
    /\ LastRecord.next_round_switching_prob
          # history[Len(history) - 1].next_round_switching_prob
    /\ LastRecord.player1_utility # history[Len(history) - 1].player1_utility
    /\ LastRecord.player2_utility # history[Len(history) - 1].player2_utility
    /\ LastRecord.player1_utility = utility["player1"]
    /\ LastRecord.player2_utility = utility["player2"]
    /\ LastRecord.next_round_switching_prob = p_current

\* the opponent's offers made to player pl among the first n records, oldest first
OffersMadeTo(pl, n) ==
    SelectSeq(SubSeq(history, 1, n), LAMBDA rec : rec.proposer # pl)

NonzeroOffersMadeTo(pl, n) ==
    SelectSeq(OffersMadeTo(pl, n), LAMBDA rec : rec.offer # 0)

\* what C18 says a tit-for-tat proposer holds after the first n records
Mirrored(pl, n) ==
    LET nz == NonzeroOffersMadeTo(pl, n)
    IN  IF Len(nz) = 0 THEN 0 ELSE nz[Len(nz)].offer

IsTitForTat(pl) == proposer_strategy[pl].kind = "TitForTat"

\* C18: every offer made by a player using TitForTatProposer is 0 if no nonzero
\* offer had been made to that player before, and otherwise the most recent
\* nonzero offer the opponent made to it; zero offers and the player's own
\* offers leave the stored value as it is.
C18_TitForTatMirrors ==
    \A pl \in Players :
        IsTitForTat(pl) =>
            /\ \A k \in 1 .. Len(history) :
                  history[k].proposer = pl => history[k].offer = Mirrored(pl, k - 1)
            /\ proposer_strategy[pl].last_opponent_offer
                  = (IF Len(NonzeroOffersMadeTo(pl, Len(history))) = 0
                     THEN None ELSE Some(Mirrored(pl, Len(history))))

\* a tit-for-tat proposer offered 0 at first, later received a nonzero offer
\* followed by a zero offer, and then mirrored the nonzero one
C18_Witness ==
    \E pl \in Players :
        /\ IsTitForTat(pl)
        /\ \E i, j, k \in 1 .. Len(history) :
              /\ i < j /\ j < k
              /\ history[i].proposer # pl /\ history[i].offer # 0
              /\ history[j].proposer # pl /\ history[j].offer = 0
              /\ history[k].proposer = pl /\ history[k].offer = history[i].offer
        /\ \E h \in 1 .. Len(history) :
              history[h].proposer = pl /\ history[h].offer = 0

IsRiskAware(pl) == proposer_strategy[pl].kind = "RiskAware"

\* C19: after a round proposed by a player using RiskAwareProposer, the trial
\* counter of the offered level is one higher; if the round was accepted the
\* accept counter is one higher and rejection_penalties is as before; if it was
\* rejected the accept counter is as before and rejection_penalties has grown by
\* the amount by which the proposer's utility changed in that round (flat cost
\* + proposer_bad + the jitter draw), for any proposer_random_penalty_range.
C19_FeedbackRecordsAppliedPenalty ==
    [][(RoundPlayed /\ IsRiskAware(proposer)) =>
          LET old   == proposer_strategy[proposer]
              new   == proposer_strategy'[proposer]
              offer == NewRecord.offer
          IN  /\ new.stats[offer].trials = old.stats[offer].trials + 1
              /\ NewRecord.accepted =>
                    /\ new.stats[offer].accepts = old.stats[offer].accepts + 1
                    /\ new.rejection_penalties = old.rejection_penalties
              /\ ~NewRecord.accepted =>
                    /\ new.stats[offer].accepts = old.stats[offer].accepts
                    /\ new.rejection_penalties
                          = Append(old.rejection_penalties,
                                   utility'[proposer] - utility[proposer])]_vars

\* the preconditions of C21: p = 0, player1 concedes by a positive decrement,
\* player2's StrategicRejectorResponder has the game's min_offer as its floor,
\* and accepting min_offer is not worse for player2 than rejecting
FloorPrecondition ==
    /\ game.p_base = 0
    /\ IsConceding("player1")
    /\ proposer_strategy["player1"].decrement > 0
    /\ IsStrategicRejector("player2")
    /\ responder_strategy["player2"].min_offer = game.min_offer
    /\ -game.min_offer >= get_bad_utility("player2", FALSE)

\* run(MaxRounds) has been called: the longest run of the model
LongRun == pc = "running" /\ n_rounds = MaxRounds

\* C21 as stated: under the preconditions a long run eventually reaches a round
\* after which every offer equals min_offer and every offer is accepted.
C21_OffersReachMinOffer ==
    []((FloorPrecondition /\ LongRun) =>
          <>[](/\ Len(history) > 0
               /\ LastRecord.accepted
               /\ LastRecord.offer = game.min_offer))

\* C21 as amended: under the preconditions and with p_reject_bump = 0 a long
\* run eventually reaches a round after which every offer is made by player1,
\* is within epsilon of min_offer, and is accepted.
C21_OffersReachFloor ==
    []((FloorPrecondition /\ game.p_reject_bump = 0 /\ LongRun) =>
          <>[](/\ Len(history) > 0
               /\ LastRecord.accepted
               /\ LastRecord.proposer = "player1"
               /\ LastRecord.offer >= game.min_offer
               /\ LastRecord.offer <= game.min_offer + responder_strategy["player2"].epsilon))

\* a long run has ended in which player2 rejected an acceptable offer for
\* stagnation and the last two offers, above min_offer but within epsilon of
\* it, were accepted
C21_Witness ==
    /\ FloorPrecondition
    /\ game.p_reject_bump = 0
    /\ pc = "done"
    /\ n_rounds = MaxRounds
    /\ \E k \in 1 .. Len(history) :
          /\ ~history[k].accepted
          /\ -history[k].offer >= get_bad_utility("player2", FALSE)
    /\ \A k \in (Len(history) - 1) .. Len(history) :
          /\ history[k].accepted
          /\ history[k].offer > game.min_offer
          /\ history[k].offer <= game.min_offer + responder_strategy["player2"].epsilon

\* the responder has a previous offer and its streak has reached the tolerance
LockedIn(s) == s.prev_offer # None /\ s.streak >= s.stagnation_tolerance

\* C22: for every offer made to a StrategicRejectorResponder: a rejection never
\* lowers the streak; once the streak has reached stagnation_tolerance, an
\* offer above min_offer + epsilon, not worse than rejecting and not lower than
\* the previous offer by more than epsilon is rejected and the streak stays at
\* or above the tolerance; an offer accepted in that situation is at the floor
\* or lower than the previous offer by more than epsilon; an offer rejected for
\* being worse than rejecting, or accepted at the floor, leaves streak and
\* prev_offer as they are.
C22_LockIn ==
    [][(RoundPlayed /\ IsStrategicRejector(receiver)) =>
          LET old   == responder_strategy[receiver]
              new   == responder_strategy'[receiver]
              offer == NewRecord.offer
          IN  /\ ~NewRecord.accepted => new.streak >= old.streak
              /\ (LockedIn(old) /\ AboveFloor(receiver, offer)
                  /\ offer >= old.prev_offer[1] - old.epsilon)
                    => (~NewRecord.accepted /\ LockedIn(new))
              /\ (LockedIn(old) /\ NewRecord.accepted)
                    => \/ offer <= old.min_offer + old.epsilon
                       \/ offer < old.prev_offer[1] - old.epsilon
              /\ (-offer < get_bad_utility(receiver, FALSE))
                    => (~NewRecord.accepted /\ new = old)
              /\ (-offer >= get_bad_utility(receiver, FALSE)
                  /\ offer <= old.min_offer + old.epsilon)
                    => (NewRecord.accepted /\ new = old)]_vars

\* a responder whose streak had reached the tolerance rejected a higher offer,
\* then accepted an offer at the floor without touching streak and prev_offer,
\* and is still locked in
C22_Witness ==
    \E pl \in Players :
        LET R == Responses(pl) IN
        /\ IsStrategicRejector(pl)
        /\ Len(R) >= 3
        /\ AboveFloor(pl, R[Len(R) - 2].offer) /\ ~R[Len(R) - 2].accepted
        /\ AboveFloor(pl, R[Len(R) - 1].offer) /\ ~R[Len(R) - 1].accepted
        /\ R[Len(R) - 1].offer > R[Len(R) - 2].offer
        /\ R[Len(R)].offer <= responder_strategy[pl].min_offer + responder_strategy[pl].epsilon
        /\ R[Len(R)].accepted
        /\ responder_strategy[pl].prev_offer = Some(R[Len(R) - 1].offer)
        /\ responder_strategy[pl].streak > responder_strategy[pl].stagnation_tolerance

====
